---- MODULE Spec2Model ----
(***************************************************************************)
(* A model of the LLM latency tester: the API client of src/client.py      *)
(* (call_api, call_api_stream), the metrics engine of src/metrics.py       *)
(* (calculate_tps, aggregate_values, summarize_results) and the batch      *)
(* runner of src/main.py (run_single_test, run_batch_tests).               *)
(*                                                                         *)
(* Conventions.                                                            *)
(*  - A Python Optional value is a sequence of length <= 1: None is <<>>   *)
(*    and a present value x is <<x>>.                                      *)
(*  - A JSON object / Python dict is a function whose DOMAIN is the set of *)
(*    keys present; Get is dict.get.  The empty dict is <<>>.              *)
(*  - The clock (time.perf_counter) counts ticks of 0.005 ms; a value      *)
(*    rounded by round(x, 2) is a count of hundredths of a millisecond.    *)
(*  - The Chinese message literals of the source are given in English.     *)
(*  - A str that the code searches or strips (the endpoint) is a sequence  *)
(*    of one-character strings.                                            *)
(*  - A JSON value of a request body is an Optional: None is null.         *)
(***************************************************************************)
EXTENDS Integers, Sequences, FiniteSets, TLC

VARIABLES
    client,             \* LLMClient configuration (self.*)
    pc,                 \* position of the running operation
    mode,               \* the operation that runs: "call_api", "call_api_stream", "summarize_results"
    now,                \* time.perf_counter(), in ticks
    start_time,         \* local start_time of the running call
    status,             \* response.status_code of the running call (0: no response)
    body,               \* the buffered response body received (Optional)
    lines_read,         \* the number of lines iter_lines() has yielded so far
    sent_content,       \* history: the non-empty content fragments the server has sent
    sent_reasoning,     \* history: whether the server has sent a non-empty reasoning fragment
    sent_usage,         \* history: the completion count of the last event that carried one (Optional)
    first_content_at,   \* history: the elapsed time at the first non-empty content fragment (Optional)
    ended,              \* history: how the stream ended ("no": it has not)
    ttft,               \* local ttft of call_api_stream (Optional, ticks)
    ttfr,               \* local ttfr of call_api_stream (Optional, ticks)
    content_chunks,     \* local content_chunks of call_api_stream
    completion_tokens,  \* local completion_tokens of call_api_stream
    tiktoken_calls,     \* number of calls of count_tokens_tiktoken the call made
    result,             \* what the call gave its caller
    request_body,       \* local body of the call: the request body it built (Optional)
    raised,             \* history: the exception raised inside the try block of the call (Optional)
    terminal_seen,      \* history: whether a response.completed event has been read
    skipped,            \* history: the number of lines the loop has skipped
    content_after_skip, \* history: whether a content fragment was read after a skipped line
    results,            \* the list of TestResult: built by run_batch_tests, passed to summarize_results
    summary,            \* summarize_results: the BatchSummary returned (Optional)
    prompts,            \* run_batch_tests: argument prompts
    runs,               \* run_batch_tests: argument runs
    streaming,          \* run_batch_tests: argument streaming
    prompt_idx,         \* run_batch_tests: prompt_idx of the loop
    run_idx,            \* run_batch_tests: run_idx of the loop
    calls,              \* history: the <<prompt_idx, run_idx>> of every call issued on the client
    args,               \* the arguments of the function that is applied
    ret                 \* what the function that is applied returned (Optional)

sentVars == <<sent_content, sent_reasoning, sent_usage, first_content_at, ended,
              terminal_seen, skipped, content_after_skip>>
clientVars == <<client, pc, mode, now, start_time, status, body, lines_read, sent_content,
                sent_reasoning, sent_usage, first_content_at, ended, ttft, ttfr,
                content_chunks, completion_tokens, tiktoken_calls, result, request_body,
                raised, terminal_seen, skipped, content_after_skip>>
summaryVars == <<results, summary>>
batchVars == <<prompts, runs, streaming, prompt_idx, run_idx, calls>>
applyVars == <<args, ret>>
vars == <<client, pc, mode, now, start_time, status, body, lines_read, sent_content,
          sent_reasoning, sent_usage, first_content_at, ended, ttft, ttfr, content_chunks,
          completion_tokens, tiktoken_calls, result, request_body, raised, terminal_seen,
          skipped, content_after_skip, results, summary, prompts, runs, streaming,
          prompt_idx, run_idx, calls, args, ret>>

----------------------------------------------------------------------------
(* Bounds of the model *)

\* largest clock advance while one line of a stream is awaited, in ticks
MaxTick == 1
\* largest clock advance while the response to the POST is awaited, in ticks
MaxRtt == 2
\* largest number of lines one stream delivers
MaxLines == 3
\* largest number of TestResults in a batch handed to summarize_results
MaxResults == 3
\* largest number of prompts of a batch run
MaxPrompts == 2
\* largest number of repetitions of a prompt in a batch run
MaxRuns == 2
\* largest number of calls of a batch run
MaxCalls == 4
\* largest number of samples handed to aggregate_values
MaxSamples == 3
\* largest token count handed to calculate_tps
MaxTokens == 7
\* largest latency handed to calculate_tps, in hundredths of a millisecond
MaxLatency == 6

----------------------------------------------------------------------------
(* Python values *)

None == <<>>
Some(x) == <<x>>
IsNone(o) == o = <<>>
Val(o) == o[1]

\* dict.get(key, default)
Get(d, key, default) == IF key \in DOMAIN d THEN d[key] ELSE default

\* truth value of an Optional[str]: None and "" are falsy
TruthyStr(o) == o # None /\ Val(o) # ""

\* truth value of an Optional[float] / Optional[int]: None and 0 are falsy
TruthyNum(o) == o # None /\ Val(o) # 0

\* round(x, 2) of a value of t ticks (t * 0.005 ms), in hundredths of a ms,
\* ties to even
Round2(t) ==
    IF t % 2 = 0 THEN t \div 2
    ELSE IF ((t - 1) \div 2) % 2 = 0 THEN (t - 1) \div 2 ELSE (t + 1) \div 2

\* "".join(parts) for a list of str
RECURSIVE Join(_)
Join(parts) == IF parts = <<>> THEN "" ELSE Head(parts) \o Join(Tail(parts))

\* the value of an evaluation that may raise
Ok(v) == [ok |-> TRUE, value |-> v]
Raise(e) == [ok |-> FALSE, exc |-> e]

----------------------------------------------------------------------------
(* src/metrics.py: the records *)

\* the fields the TimingMetrics dataclass declares
TimingMetricsFields == {"total_latency_ms", "ttft_ms"}

\* TimingMetrics(**kwargs): the generated __init__ raises TypeError on a
\* keyword that is not a field, or when total_latency_ms is not given
TimingMetrics(kwargs) ==
    IF DOMAIN kwargs \subseteq TimingMetricsFields /\ "total_latency_ms" \in DOMAIN kwargs
    THEN Ok([total_latency_ms |-> kwargs.total_latency_ms,
             ttft_ms |-> Get(kwargs, "ttft_ms", None)])
    ELSE Raise("TypeError")

TokenMetrics(prompt, completion, total) ==
    [prompt_tokens |-> prompt, completion_tokens |-> completion, total_tokens |-> total]

\* what count_tokens_tiktoken(text, model) can return: the number of tokens of
\* an encoding (at least one and at most one per character of a non-empty
\* text), or, when no encoding is available, len(text) // 3
count_tokens_tiktoken(text) ==
    IF text = "" THEN {0} ELSE (1..Len(text)) \cup {Len(text) \div 3}

----------------------------------------------------------------------------
(* src/client.py: LLMResponse *)

LLMResponse(success, content, timing, tokens, error_message, raw_response) ==
    [kind |-> "LLMResponse", success |-> success, content |-> content,
     timing |-> timing, tokens |-> tokens, error_message |-> error_message,
     raw_response |-> raw_response]

Failure(msg) == LLMResponse(FALSE, None, None, None, Some(msg), None)

\* no call has returned yet
NoResult == [kind |-> "pending"]
\* an exception left the call
Propagated(e) == [kind |-> "raised", exc |-> e]

----------------------------------------------------------------------------
(* src/client.py: LLMClient.__init__ and _build_request_body *)

\* timeout: float = 120.0
DefaultTimeout == 120

\* sub in s, for two str
Contains(s, sub) ==
    \E i \in 1..(Len(s) - Len(sub) + 1) : SubSeq(s, i, i + Len(sub) - 1) = sub

\* s.rstrip('/')
RECURSIVE rstrip(_)
rstrip(s) ==
    IF s # <<>> /\ s[Len(s)] = "/" THEN rstrip(SubSeq(s, 1, Len(s) - 1)) ELSE s

\* "/responses"
ResponsesPath == <<"/", "r", "e", "s", "p", "o", "n", "s", "e", "s">>

\* "h/responses" and "h/chat"
ResponsesEndpoint == <<"h">> \o ResponsesPath
ChatEndpoint == <<"h", "/", "c", "h", "a", "t">>

\* the endpoints a client is built with: with the path at the end, before a
\* trailing slash or a query, in the middle, cut short, in capitals, absent
Endpoints ==
    { ResponsesEndpoint,
      ResponsesEndpoint \o <<"/">>,
      ResponsesEndpoint \o <<"?", "v">>,
      ResponsesEndpoint \o <<"/", "x">>,
      <<"h", "/", "r", "e", "s", "p", "o", "n", "s", "e">>,
      <<"h", "/", "R", "e", "s", "p", "o", "n", "s", "e", "s">>,
      ChatEndpoint,
      ChatEndpoint \o <<"/", "/">> }

\* LLMClient.__init__ with is_responses_api true exactly when the endpoint
\* ends with "/responses"
LLMClient_by_suffix(endpoint, api_key, model, timeout, reasoning_effort, max_tokens, no_cache) ==
    [endpoint |-> rstrip(endpoint),
     api_key |-> api_key,
     model |-> model,
     timeout |-> timeout,
     reasoning_effort |-> reasoning_effort,
     max_tokens |-> max_tokens,
     no_cache |-> no_cache,
     headers |-> [Content_Type |-> "application/json",
                  Authorization |-> "Bearer " \o api_key,
                  api_key |-> api_key],
     is_responses_api |->
        (Len(endpoint) >= Len(ResponsesPath)
         /\ SubSeq(endpoint, Len(endpoint) - Len(ResponsesPath) + 1, Len(endpoint)) = ResponsesPath)]

\* LLMClient.__init__: the fields of self (the header names Content-Type and
\* api-key are written Content_Type and api_key)
LLMClient(endpoint, api_key, model, timeout, reasoning_effort, max_tokens, no_cache) ==
    [endpoint |-> rstrip(endpoint),
     api_key |-> api_key,
     model |-> model,
     timeout |-> timeout,
     reasoning_effort |-> reasoning_effort,
     max_tokens |-> max_tokens,
     no_cache |-> no_cache,
     headers |-> [Content_Type |-> "application/json",
                  Authorization |-> "Bearer " \o api_key,
                  api_key |-> api_key],
     is_responses_api |-> Contains(endpoint, ResponsesPath)]

\* body[key] = value when cond holds
SetIf(d, cond, key, value) ==
    IF cond THEN [x \in DOMAIN d \cup {key} |-> IF x = key THEN value ELSE d[x]] ELSE d

\* _build_request_body with the optional keys always set
_build_request_body_with_nulls(self, prompt, stream) ==
    IF self.is_responses_api
    THEN [model |-> Some(self.model), input |-> Some(prompt), stream |-> Some(stream),
          reasoning |-> Some([effort |-> self.reasoning_effort]),
          max_output_tokens |-> self.max_tokens,
          store |-> Some(FALSE)]
    ELSE [model |-> Some(self.model),
          messages |-> Some(<< [role |-> "user", content |-> prompt] >>),
          stream |-> Some(stream),
          reasoning_effort |-> self.reasoning_effort,
          max_tokens |-> self.max_tokens]

\* LLMClient._build_request_body: the dict sent as JSON
_build_request_body(self, prompt, stream) ==
    IF self.is_responses_api
    THEN SetIf(SetIf(SetIf([model |-> Some(self.model),
                            input |-> Some(prompt),
                            stream |-> Some(stream)],
                           TruthyStr(self.reasoning_effort),
                           "reasoning", Some([effort |-> self.reasoning_effort])),
                     TruthyNum(self.max_tokens), "max_output_tokens", self.max_tokens),
               self.no_cache, "store", Some(FALSE))
    ELSE SetIf(SetIf([model |-> Some(self.model),
                      messages |-> Some(<< [role |-> "user", content |-> prompt] >>),
                      stream |-> Some(stream)],
                     TruthyStr(self.reasoning_effort), "reasoning_effort", self.reasoning_effort),
               TruthyNum(self.max_tokens), "max_tokens", self.max_tokens)

\* the prompt of the call that is followed step by step
CallPrompt == "p"

----------------------------------------------------------------------------
(* What the server and the transport can do *)

\* the HTTP status codes the transport can report
Statuses == {200, 201, 204, 302, 400, 401, 403, 404, 429, 500, 503}

\* exceptions of the transport (httpx): ReadTimeout is a TimeoutException,
\* ReadError is neither a TimeoutException nor a ConnectError
TransportExceptions == {"ReadTimeout", "ConnectError", "ReadError"}

\* isinstance(e, httpx.TimeoutException)
IsTimeoutException(e) == e \in {"TimeoutException", "ConnectTimeout", "ReadTimeout"}

\* isinstance(e, httpx.ConnectError)
IsConnectError(e) == e = "ConnectError"

\* a usage object: each count is present (Some) or its key is missing (None)
UsageDict(pkey, p, ckey, c, t) ==
    LET keys == (IF p # None THEN {pkey} ELSE {})
                \cup (IF c # None THEN {ckey} ELSE {})
                \cup (IF t # None THEN {"total_tokens"} ELSE {})
    IN  [k \in keys |-> IF k = pkey THEN Val(p) ELSE IF k = ckey THEN Val(c) ELSE Val(t)]

Usages(pkey, ckey) ==
    { UsageDict(pkey, p, ckey, c, t) :
        p \in {None, Some(5)}, c \in {None, Some(0), Some(1)}, t \in {None, Some(6), Some(7)} }

\* d with key k bound to v
With(d, k, v) == [x \in DOMAIN d \cup {k} |-> IF x = k THEN v ELSE d[x]]

\* an envelope with or without a usage object
WithUsage(d, us) == {d} \cup { With(d, "usage", u) : u \in us }

\* chat-completions envelopes: message.content is missing, null, "" or a text
ChatMessages == { <<>>, [content |-> None], [content |-> Some("")], [content |-> Some("hi")] }

ChatChoices == { <<>>, << <<>> >> } \cup { << [message |-> m] >> : m \in ChatMessages }

ChatBodies ==
    UNION { WithUsage(d, Usages("prompt_tokens", "completion_tokens")) :
              d \in {<<>>} \cup { [choices |-> c] : c \in ChatChoices } }

\* responses envelopes
TextPart(t) == [type |-> "output_text", text |-> t]
MessageItem(parts) == [type |-> "message", content |-> parts]

ResponsesOutputs ==
    { <<>>,
      << MessageItem(<< TextPart(Some("a")) >>) >>,
      << MessageItem(<< TextPart(Some("a")), TextPart(Some("b")) >>) >>,
      << MessageItem(<< TextPart(Some("a")) >>), MessageItem(<< TextPart(Some("b")) >>) >>,
      << [type |-> "reasoning"], MessageItem(<< TextPart(Some("a")) >>) >>,
      << MessageItem(<< [type |-> "refusal", refusal |-> "no"] >>) >>,
      << MessageItem(<< TextPart(Some("")) >>) >>,
      << MessageItem(<< TextPart(None) >>) >>,
      << MessageItem(<< [type |-> "output_text"] >>) >>,
      << [type |-> "message"] >> }

ResponsesBodies ==
    UNION { WithUsage(d, Usages("input_tokens", "output_tokens")) :
              d \in {<<>>} \cup { [output |-> o] : o \in ResponsesOutputs } }

\* a response body: text that is no JSON, a JSON value that is no object,
\* or a JSON object
Bodies ==
    { [json |-> "invalid"], [json |-> "array"] }
    \cup { [json |-> "object", data |-> d] : d \in ChatBodies \cup ResponsesBodies }

\* response.json()
response_json(b) ==
    IF b.json = "invalid" THEN Raise("JSONDecodeError") ELSE Ok(b)

\* what one buffered POST can end in
BufferedOutcomes ==
    { [exc |-> e] : e \in TransportExceptions }
    \cup { [status |-> s, body |-> b] : s \in Statuses \ {200}, b \in {[json |-> "invalid"]} }
    \cup { [status |-> 200, body |-> b] : b \in Bodies }

----------------------------------------------------------------------------
(* src/client.py: extraction from a buffered response *)

_extract_tokens_from_response(self, response_data) ==
    LET usage == Get(response_data, "usage", <<>>)
    IN  IF self.is_responses_api
        THEN TokenMetrics(Get(usage, "input_tokens", 0),
                          Get(usage, "output_tokens", 0),
                          Get(usage, "total_tokens", 0))
        ELSE TokenMetrics(Get(usage, "prompt_tokens", 0),
                          Get(usage, "completion_tokens", 0),
                          Get(usage, "total_tokens", 0))

\* the texts content_parts collects from one output item
ItemTexts(item) ==
    IF Get(item, "type", "") = "message"
    THEN LET cs == SelectSeq(Get(item, "content", <<>>),
                             LAMBDA c : Get(c, "type", "") = "output_text")
         IN  [i \in 1..Len(cs) |-> Get(cs[i], "text", Some(""))]
    ELSE <<>>

RECURSIVE ContentParts(_)
ContentParts(output) ==
    IF output = <<>> THEN <<>>
    ELSE ItemTexts(Head(output)) \o ContentParts(Tail(output))

\* the content as an Optional[str]; "".join raises TypeError on a None part
_extract_content_from_response(self, response_data) ==
    IF self.is_responses_api
    THEN LET parts == ContentParts(Get(response_data, "output", <<>>))
         IN  IF \E i \in 1..Len(parts) : parts[i] = None
             THEN Raise("TypeError")
             ELSE Ok(Some(Join([i \in 1..Len(parts) |-> Val(parts[i])])))
    ELSE LET choices == Get(response_data, "choices", <<>>)
         IN  IF choices # <<>>
             THEN Ok(Get(Get(choices[1], "message", <<>>), "content", Some("")))
             ELSE Ok(Some(""))

----------------------------------------------------------------------------
(* src/client.py: call_api *)

\* what a try block ends in: a return or an exception, and the number of
\* calls of count_tokens_tiktoken it made
Ret(resp, n) == [ok |-> TRUE, value |-> resp, tiktoken |-> n]
Exc(e, n) == [ok |-> FALSE, exc |-> e, tiktoken |-> n]

\* call_api_status with every 2xx status taken for a success
call_api_status_any_2xx(s) ==
    IF s = 401 THEN Some(Failure("authentication failed: API key invalid or expired"))
    ELSE IF s = 403 THEN Some(Failure("insufficient permission: model or resource not accessible"))
    ELSE IF s = 429 THEN Some(Failure("too many requests: rate limit triggered"))
    ELSE IF s >= 500 THEN Some(Failure("server error: " \o ToString(s)))
    ELSE IF s \div 100 # 2 THEN Some(Failure("request failed: HTTP " \o ToString(s)))
    ELSE None

\* the status check of call_api: the failure returned, None for 200
call_api_status(s) ==
    IF s = 401 THEN Some(Failure("authentication failed: API key invalid or expired"))
    ELSE IF s = 403 THEN Some(Failure("insufficient permission: model or resource not accessible"))
    ELSE IF s = 429 THEN Some(Failure("too many requests: rate limit triggered"))
    ELSE IF s >= 500 THEN Some(Failure("server error: " \o ToString(s)))
    ELSE IF s # 200 THEN Some(Failure("request failed: HTTP " \o ToString(s)))
    ELSE None

\* the success path of call_api, after response.json() gave response_data
call_api_success(self, response_data, latency_ms) ==
    LET c == _extract_content_from_response(self, response_data)
        tokens == _extract_tokens_from_response(self, response_data)
        timing == TimingMetrics([total_latency_ms |-> Round2(latency_ms)])
    IN  IF ~c.ok THEN {Exc(c.exc, 0)}
        ELSE IF tokens.completion_tokens = 0 /\ TruthyStr(c.value)
        THEN { IF timing.ok
               THEN Ret(LLMResponse(TRUE, c.value, Some(timing.value),
                          Some(TokenMetrics(tokens.prompt_tokens, n, tokens.prompt_tokens + n)),
                          None, Some(response_data)), 1)
               ELSE Exc(timing.exc, 1)
               : n \in count_tokens_tiktoken(Val(c.value)) }
        ELSE { IF timing.ok
               THEN Ret(LLMResponse(TRUE, c.value, Some(timing.value), Some(tokens),
                                    None, Some(response_data)), 0)
               ELSE Exc(timing.exc, 0) }

\* the try block of call_api for one outcome of the POST
call_api_try(self, o, latency_ms) ==
    IF "exc" \in DOMAIN o THEN {Exc(o.exc, 0)}
    ELSE LET early == call_api_status(o.status)
             j == response_json(o.body)
         IN  IF early # None THEN {Ret(Val(early), 0)}
             ELSE IF ~j.ok THEN {Ret(Failure("JSON parse failed: " \o j.exc), 0)}
             ELSE IF j.value.json # "object" THEN {Exc("AttributeError", 0)}
             ELSE call_api_success(self, j.value.data, latency_ms)

\* the except clauses of call_api
call_api_except(self, e) ==
    IF IsTimeoutException(e)
    THEN Failure("request timed out: over " \o ToString(self.timeout) \o " seconds")
    ELSE IF IsConnectError(e) THEN Failure("connection failed: " \o e)
    ELSE Failure("unknown error: " \o e)

call_api ==
    /\ pc = "idle"
    /\ \E d \in 1..MaxRtt, o \in BufferedOutcomes :
         \E r \in call_api_try(client, o, (now + d) - now) :
            /\ mode' = "call_api"
            /\ start_time' = now
            /\ now' = now + d
            /\ status' = Get(o, "status", 0)
            /\ body' = IF "body" \in DOMAIN o THEN Some(o.body) ELSE None
            /\ tiktoken_calls' = r.tiktoken
            /\ raised' = IF r.ok THEN None ELSE Some(r.exc)
            /\ result' = IF r.ok THEN r.value ELSE call_api_except(client, r.exc)
    /\ request_body' = Some(_build_request_body(client, CallPrompt, FALSE))
    /\ pc' = "done"
    /\ UNCHANGED <<client, lines_read, ttft, ttfr, content_chunks, completion_tokens>>
    /\ UNCHANGED sentVars
    /\ UNCHANGED <<summaryVars, batchVars, applyVars>>

----------------------------------------------------------------------------
(* The lines of an event stream *)

\* a line of the body: empty, without the "data: " prefix, or "data: " followed
\* by [DONE], by text that is no JSON, by a JSON value that is no object, or by
\* a JSON object (an event)
BlankLine == [kind |-> "blank"]
CommentLine == [kind |-> "comment"]
DoneLine == [kind |-> "data", text |-> "[DONE]"]
InvalidLine == [kind |-> "data", text |-> "invalid"]
ArrayLine == [kind |-> "data", text |-> "array"]
EventLine(ev) == [kind |-> "data", text |-> "object", event |-> ev]

TextDelta(t) == [type |-> "response.output_text.delta", delta |-> t]
Completed(usage) == [type |-> "response.completed", response |-> [usage |-> usage]]

\* the events a responses-style server sends
ResponsesEvents ==
    { TextDelta(Some("a")), TextDelta(Some("b")), TextDelta(Some("")),
      [type |-> "response.reasoning_text.delta", delta |-> Some("r")],
      [type |-> "response.reasoning.delta", text |-> Some("r")],
      Completed([output_tokens |-> 2]),
      Completed([input_tokens |-> 3]),
      [type |-> "response.created"] }

ChatDelta(c) == [choices |-> << [delta |-> [content |-> c]] >>]

\* the events a chat-completions-style server sends
ChatEvents ==
    { ChatDelta(Some("a")), ChatDelta(Some("b")), ChatDelta(None),
      [choices |-> << [delta |-> [role |-> "assistant"]] >>],
      [choices |-> <<>>, usage |-> [completion_tokens |-> 2]],
      [choices |-> <<>>, usage |-> [prompt_tokens |-> 3]],
      With(ChatDelta(Some("b")), "usage", [completion_tokens |-> 0]) }

Events(self) == IF self.is_responses_api THEN ResponsesEvents ELSE ChatEvents

\* the lines after which the loop goes on, and those that end it
GoingLines(self) == {BlankLine, CommentLine, InvalidLine} \cup { EventLine(e) : e \in Events(self) }
EndingLines == {DoneLine, ArrayLine}

\* not line, not line.startswith("data: "), or json.loads raises JSONDecodeError
IsSkipped(line) == IF line.kind # "data" THEN TRUE ELSE line.text = "invalid"

\* json.loads gave an object
IsEvent(line) == IF line.kind = "data" THEN line.text = "object" ELSE FALSE

\* The wire contract of the endpoint's format: what a line carries.
\* The content fragment of a line, None when it carries none
SentFragment(self, line) ==
    IF ~IsEvent(line) THEN None
    ELSE IF self.is_responses_api
    THEN IF Get(line.event, "type", "") = "response.output_text.delta"
         THEN Get(line.event, "delta", None)
         ELSE None
    ELSE IF Get(line.event, "choices", <<>>) # <<>>
    THEN Get(Get(line.event.choices[1], "delta", <<>>), "content", None)
    ELSE None

\* whether a line carries a non-empty reasoning fragment
SentReasoning(self, line) ==
    IF IsEvent(line) /\ self.is_responses_api
    THEN /\ Get(line.event, "type", "") \in
              {"response.reasoning_text.delta", "response.reasoning.delta"}
         /\ \/ TruthyStr(Get(line.event, "delta", None))
            \/ TruthyStr(Get(line.event, "text", None))
    ELSE FALSE

\* the completion-token count a line carries, None when it carries none
SentCompletion(self, line) ==
    IF ~IsEvent(line) THEN None
    ELSE IF self.is_responses_api
    THEN IF Get(line.event, "type", "") = "response.completed"
            /\ "output_tokens" \in DOMAIN Get(Get(line.event, "response", <<>>), "usage", <<>>)
         THEN Some(line.event.response.usage.output_tokens)
         ELSE None
    ELSE IF "completion_tokens" \in DOMAIN Get(line.event, "usage", <<>>)
    THEN Some(line.event.usage.completion_tokens)
    ELSE None

\* whether a line is the terminal completion event of a responses-style stream
IsTerminal(self, line) ==
    IF IsEvent(line) /\ self.is_responses_api
    THEN Get(line.event, "type", "") = "response.completed"
    ELSE FALSE

\* what opening the stream can end in
StreamOutcomes == { [exc |-> e] : e \in TransportExceptions } \cup { [status |-> s] : s \in Statuses }

----------------------------------------------------------------------------
(* src/client.py: call_api_stream *)

\* call_api_stream_status without the branch for 403
call_api_stream_status_no_403(s) ==
    IF s = 401 THEN Some(Failure("authentication failed: API key invalid or expired"))
    ELSE IF s = 429 THEN Some(Failure("too many requests: rate limit triggered"))
    ELSE IF s >= 500 THEN Some(Failure("server error: " \o ToString(s)))
    ELSE IF s # 200 THEN Some(Failure("request failed: HTTP " \o ToString(s)))
    ELSE None

\* the status check of call_api_stream: the failure returned, None for 200
call_api_stream_status(s) ==
    IF s = 401 THEN Some(Failure("authentication failed: API key invalid or expired"))
    ELSE IF s = 403 THEN Some(Failure("insufficient permission: model or resource not accessible"))
    ELSE IF s = 429 THEN Some(Failure("too many requests: rate limit triggered"))
    ELSE IF s >= 500 THEN Some(Failure("server error: " \o ToString(s)))
    ELSE IF s # 200 THEN Some(Failure("request failed: HTTP " \o ToString(s)))
    ELSE None

\* call_api_stream_except without the last clause, except Exception
call_api_stream_except_no_catch_all(self, e) ==
    IF IsTimeoutException(e)
    THEN Failure("request timed out: over " \o ToString(self.timeout) \o " seconds")
    ELSE IF IsConnectError(e) THEN Failure("connection failed: " \o e)
    ELSE Propagated(e)

\* call_api_stream_except without the first clause, except httpx.TimeoutException
call_api_stream_except_no_timeout_clause(self, e) ==
    IF IsConnectError(e) THEN Failure("connection failed: " \o e)
    ELSE Failure("unknown error: " \o e)

\* the except clauses of call_api_stream
call_api_stream_except(self, e) ==
    IF IsTimeoutException(e)
    THEN Failure("request timed out: over " \o ToString(self.timeout) \o " seconds")
    ELSE IF IsConnectError(e) THEN Failure("connection failed: " \o e)
    ELSE Failure("unknown error: " \o e)

\* the locals the loop body may assign
Locals(t, r, chunks, ct) ==
    [ttft |-> t, ttfr |-> r, content_chunks |-> chunks, completion_tokens |-> ct]

\* a content fragment: the first non-empty one sets ttft
on_content(l, fragment, elapsed) ==
    IF TruthyStr(fragment)
    THEN Locals(IF l.ttft = None THEN Some(elapsed) ELSE l.ttft, l.ttfr,
                Append(l.content_chunks, Val(fragment)), l.completion_tokens)
    ELSE l

\* chunk_data.get("delta") or chunk_data.get("text") or ""
reasoning_delta(ev) ==
    IF TruthyStr(Get(ev, "delta", None)) THEN ev.delta
    ELSE IF TruthyStr(Get(ev, "text", None)) THEN ev.text
    ELSE Some("")

\* the loop body for a decoded event of a responses-style stream
on_responses_event(l, ev, elapsed) ==
    LET chunk_type == Get(ev, "type", "")
        usage == Get(Get(ev, "response", <<>>), "usage", <<>>)
    IN  IF chunk_type = "response.output_text.delta"
        THEN on_content(l, Get(ev, "delta", Some("")), elapsed)
        ELSE IF chunk_type \in {"response.reasoning_text.delta", "response.reasoning.delta"}
        THEN IF TruthyStr(reasoning_delta(ev)) /\ l.ttfr = None
             THEN [l EXCEPT !.ttfr = Some(elapsed)]
             ELSE l
        ELSE IF chunk_type = "response.completed" /\ usage # <<>>
        THEN [l EXCEPT !.completion_tokens = Get(usage, "output_tokens", 0)]
        ELSE l

\* the loop body for a decoded event of a chat-completions-style stream
on_chat_event(l, ev, elapsed) ==
    LET choices == Get(ev, "choices", <<>>)
        l1 == IF choices # <<>>
              THEN on_content(l, Get(Get(choices[1], "delta", <<>>), "content", Some("")), elapsed)
              ELSE l
        usage == Get(ev, "usage", <<>>)
    IN  IF usage # <<>>
        THEN [l1 EXCEPT !.completion_tokens = Get(usage, "completion_tokens", 0)]
        ELSE l1

on_event(self, l, ev, elapsed) ==
    IF self.is_responses_api THEN on_responses_event(l, ev, elapsed)
    ELSE on_chat_event(l, ev, elapsed)

\* the loop body for a line after which the loop goes on, with a skipped line
\* emptying content_chunks
loop_body_forgetting_on_skip(self, l, line, elapsed) ==
    IF IsSkipped(line) THEN [l EXCEPT !.content_chunks = <<>>]
    ELSE on_event(self, l, line.event, elapsed)

\* the loop body for a line after which the loop goes on: continue for an
\* empty line, a line without the prefix or a payload json.loads rejects
loop_body(self, l, line, elapsed) ==
    IF IsSkipped(line) THEN l
    ELSE on_event(self, l, line.event, elapsed)

\* the code after the loop: what the try block ends in, with the final
\* completion_tokens
call_api_stream_finish(l, total_latency_ms) ==
    LET full_content == Join(l.content_chunks)
        timing == TimingMetrics(
            [total_latency_ms |-> Round2(total_latency_ms),
             ttft_ms |-> IF TruthyNum(l.ttft) THEN Some(Round2(Val(l.ttft))) ELSE None,
             ttfr_ms |-> IF TruthyNum(l.ttfr) THEN Some(Round2(Val(l.ttfr))) ELSE None])
        made(ct, n) ==
            [completion_tokens |-> ct,
             end |-> IF timing.ok
                     THEN Ret(LLMResponse(TRUE, Some(full_content), Some(timing.value),
                                          Some(TokenMetrics(0, ct, ct)), None, None), n)
                     ELSE Exc(timing.exc, n)]
    IN  IF l.completion_tokens = 0 /\ full_content # ""
        THEN { made(n, 1) : n \in count_tokens_tiktoken(full_content) }
        ELSE { made(l.completion_tokens, 0) }

\* iter_lines() yields line: the history of what the server has sent
Yield(line, elapsed) ==
    /\ lines_read' = lines_read + 1
    /\ first_content_at' = IF first_content_at = None /\ TruthyStr(SentFragment(client, line))
                           THEN Some(elapsed)
                           ELSE first_content_at
    /\ sent_content' = IF TruthyStr(SentFragment(client, line))
                       THEN Append(sent_content, Val(SentFragment(client, line)))
                       ELSE sent_content
    /\ sent_reasoning' = (sent_reasoning \/ SentReasoning(client, line))
    /\ sent_usage' = IF SentCompletion(client, line) # None
                     THEN SentCompletion(client, line)
                     ELSE sent_usage
    /\ terminal_seen' = (terminal_seen \/ IsTerminal(client, line))
    /\ skipped' = IF IsSkipped(line) THEN skipped + 1 ELSE skipped
    /\ content_after_skip' = (content_after_skip
                                \/ (skipped > 0 /\ TruthyStr(SentFragment(client, line))))

\* assign the outcome f of the code after the loop
Finish(f) ==
    /\ completion_tokens' = f.completion_tokens
    /\ tiktoken_calls' = f.end.tiktoken
    /\ result' = IF f.end.ok THEN f.end.value ELSE call_api_stream_except(client, f.end.exc)
    /\ raised' = IF f.end.ok THEN raised ELSE Some(f.end.exc)
    /\ pc' = "done"
    /\ UNCHANGED <<ttft, ttfr, content_chunks, request_body>>

\* the call up to the status check: the request is sent and the response
\* head arrives, or the transport raises
call_api_stream_open ==
    /\ pc = "idle"
    /\ \E d \in 1..MaxRtt, o \in StreamOutcomes :
         LET early == IF "exc" \in DOMAIN o
                      THEN Some(call_api_stream_except(client, o.exc))
                      ELSE call_api_stream_status(o.status)
         IN  /\ mode' = "call_api_stream"
             /\ start_time' = now
             /\ now' = now + d
             /\ status' = Get(o, "status", 0)
             /\ raised' = IF "exc" \in DOMAIN o THEN Some(o.exc) ELSE None
             /\ IF early # None
                THEN result' = Val(early) /\ pc' = "done" /\ ended' = "unopened"
                ELSE result' = result /\ pc' = "iter" /\ ended' = ended
    /\ ttft' = None
    /\ ttfr' = None
    /\ content_chunks' = <<>>
    /\ completion_tokens' = 0
    /\ request_body' = Some(_build_request_body(client, CallPrompt, TRUE))
    /\ UNCHANGED <<client, body, lines_read, tiktoken_calls>>
    /\ UNCHANGED <<sent_content, sent_reasoning, sent_usage, first_content_at,
                   terminal_seen, skipped, content_after_skip>>
    /\ UNCHANGED <<summaryVars, batchVars, applyVars>>

\* one iteration of the loop on a line that is skipped: an empty line, a line
\* without the "data: " prefix, or a payload json.loads rejects
call_api_stream_skip ==
    /\ pc = "iter"
    /\ lines_read < MaxLines
    /\ \E d \in 0..MaxTick, line \in GoingLines(client) :
         /\ IsSkipped(line)
         /\ now' = now + d
         /\ Yield(line, (now + d) - start_time)
         /\ LET l == loop_body(client, Locals(ttft, ttfr, content_chunks, completion_tokens),
                                line, (now + d) - start_time)
            IN  /\ ttft' = l.ttft
                /\ ttfr' = l.ttfr
                /\ content_chunks' = l.content_chunks
                /\ completion_tokens' = l.completion_tokens
    /\ UNCHANGED <<client, pc, mode, start_time, status, body, tiktoken_calls, result, ended,
                   request_body, raised>>
    /\ UNCHANGED <<summaryVars, batchVars, applyVars>>

\* one iteration of the loop on a "data: " line that decodes to an event
call_api_stream_event ==
    /\ pc = "iter"
    /\ lines_read < MaxLines
    /\ \E d \in 0..MaxTick, line \in GoingLines(client) :
         /\ IsEvent(line)
         /\ now' = now + d
         /\ Yield(line, (now + d) - start_time)
         /\ LET l == loop_body(client, Locals(ttft, ttfr, content_chunks, completion_tokens),
                                line, (now + d) - start_time)
            IN  /\ ttft' = l.ttft
                /\ ttfr' = l.ttfr
                /\ content_chunks' = l.content_chunks
                /\ completion_tokens' = l.completion_tokens
    /\ UNCHANGED <<client, pc, mode, start_time, status, body, tiktoken_calls, result, ended,
                   request_body, raised>>
    /\ UNCHANGED <<summaryVars, batchVars, applyVars>>

\* a "data: " line whose payload is JSON but no object: chunk_data.get raises
\* AttributeError, which the inner except clause does not catch
call_api_stream_bad_event ==
    /\ pc = "iter"
    /\ \E d \in 0..MaxTick :
         /\ now' = now + d
         /\ Yield(ArrayLine, (now + d) - start_time)
         /\ ended' = "malformed"
    /\ result' = call_api_stream_except(client, "AttributeError")
    /\ raised' = Some("AttributeError")
    /\ pc' = "done"
    /\ UNCHANGED <<client, mode, start_time, status, body, ttft, ttfr, content_chunks,
                   completion_tokens, tiktoken_calls, request_body>>
    /\ UNCHANGED <<summaryVars, batchVars, applyVars>>

\* the line "data: [DONE]": break, then the code after the loop
call_api_stream_done ==
    /\ pc = "iter"
    /\ \E d \in 0..MaxTick :
         /\ now' = now + d
         /\ Yield(DoneLine, (now + d) - start_time)
         /\ ended' = "[DONE]"
         /\ \E f \in call_api_stream_finish(
                        Locals(ttft, ttfr, content_chunks, completion_tokens),
                        (now + d) - start_time) : Finish(f)
    /\ UNCHANGED <<client, mode, start_time, status, body>>
    /\ UNCHANGED <<summaryVars, batchVars, applyVars>>

\* iter_lines() is exhausted (the server closed the body): the code after the loop
call_api_stream_close ==
    /\ pc = "iter"
    /\ \E d \in 0..MaxTick :
         /\ now' = now + d
         /\ \E f \in call_api_stream_finish(
                        Locals(ttft, ttfr, content_chunks, completion_tokens),
                        (now + d) - start_time) : Finish(f)
    /\ ended' = "closed"
    /\ UNCHANGED <<client, mode, start_time, status, body, lines_read>>
    /\ UNCHANGED <<sent_content, sent_reasoning, sent_usage, first_content_at,
                   terminal_seen, skipped, content_after_skip>>
    /\ UNCHANGED <<summaryVars, batchVars, applyVars>>

\* the transport raises while the next line is awaited
call_api_stream_error ==
    /\ pc = "iter"
    /\ \E d \in 0..MaxTick, e \in TransportExceptions :
         /\ now' = now + d
         /\ result' = call_api_stream_except(client, e)
         /\ raised' = Some(e)
    /\ pc' = "done"
    /\ ended' = "raised"
    /\ UNCHANGED <<client, mode, start_time, status, body, lines_read, ttft, ttfr,
                   content_chunks, completion_tokens, tiktoken_calls, request_body>>
    /\ UNCHANGED <<sent_content, sent_reasoning, sent_usage, first_content_at,
                   terminal_seen, skipped, content_after_skip>>
    /\ UNCHANGED <<summaryVars, batchVars, applyVars>>

----------------------------------------------------------------------------
(* One call on one client *)

\* the clients a call is made on: two of each wire format, with a given or
\* the default timeout
Clients ==
    { LLMClient(ResponsesEndpoint \o <<"/">>, "k", "m", 30, None, None, FALSE),
      LLMClient(ResponsesEndpoint \o <<"?", "v">>, "k", "m", DefaultTimeout, Some("low"), None, TRUE),
      LLMClient(ChatEndpoint, "k", "m", 30, None, Some(256), FALSE),
      LLMClient(<<"h", "/", "R", "e", "s", "p", "o", "n", "s", "e", "s">>, "k", "m",
                DefaultTimeout, None, None, FALSE) }

Init ==
    /\ client \in Clients
    /\ pc = "idle"
    /\ mode = "none"
    /\ now \in {0, 1}    \* the origin of the clock is arbitrary
    /\ start_time = 0
    /\ status = 0
    /\ body = None
    /\ lines_read = 0
    /\ sent_content = <<>>
    /\ sent_reasoning = FALSE
    /\ sent_usage = None
    /\ first_content_at = None
    /\ ended = "no"
    /\ ttft = None
    /\ ttfr = None
    /\ content_chunks = <<>>
    /\ completion_tokens = 0
    /\ tiktoken_calls = 0
    /\ result = NoResult
    /\ request_body = None
    /\ raised = None
    /\ terminal_seen = FALSE
    /\ skipped = 0
    /\ content_after_skip = FALSE
    /\ results = <<>>
    /\ summary = None
    /\ prompts = <<>>
    /\ runs = 0
    /\ streaming = FALSE
    /\ prompt_idx = 0
    /\ run_idx = 0
    /\ calls = <<>>
    /\ args = <<>>
    /\ ret = None

Next ==
    \/ call_api
    \/ call_api_stream_open
    \/ call_api_stream_skip
    \/ call_api_stream_event
    \/ call_api_stream_bad_event
    \/ call_api_stream_done
    \/ call_api_stream_close
    \/ call_api_stream_error

Spec == Init /\ [][Next]_vars

----------------------------------------------------------------------------
(* src/metrics.py: aggregate_values and summarize_results.                  *)
(* A sample is a count of hundredths of its unit, so that round(x, 2) of a *)
(* sample is the sample itself.                                            *)

RECURSIVE Sum(_)
Sum(values) == IF values = <<>> THEN 0 ELSE Head(values) + Sum(Tail(values))

RECURSIVE SumSq(_)
SumSq(values) == IF values = <<>> THEN 0 ELSE Head(values) * Head(values) + SumSq(Tail(values))

RECURSIVE Min(_)
Min(values) ==
    IF Len(values) = 1 THEN Head(values)
    ELSE IF Head(values) <= Min(Tail(values)) THEN Head(values) ELSE Min(Tail(values))

RECURSIVE Max(_)
Max(values) ==
    IF Len(values) = 1 THEN Head(values)
    ELSE IF Head(values) >= Max(Tail(values)) THEN Head(values) ELSE Max(Tail(values))

\* the integer nearest to a / b (a >= 0, b > 0), ties to even
RoundDiv(a, b) ==
    LET q == a \div b
        r == a % b
    IN  IF 2 * r < b THEN q
        ELSE IF 2 * r > b THEN q + 1
        ELSE IF q % 2 = 0 THEN q ELSE q + 1

\* the integer nearest to sqrt(a / b) (a >= 0, b > 0), searched in lo..hi
RECURSIVE RoundSqrt(_, _, _, _)
RoundSqrt(a, b, lo, hi) ==
    IF lo >= hi THEN lo
    ELSE LET mid == (lo + hi + 1) \div 2
         IN  IF (2 * mid - 1) * (2 * mid - 1) * b <= 4 * a
             THEN RoundSqrt(a, b, mid, hi)
             ELSE RoundSqrt(a, b, lo, mid - 1)

\* the sum of the values over one less than their number
mean_over_count_less_one(values) ==
    IF Len(values) = 1 THEN Head(values) ELSE RoundDiv(Sum(values), Len(values) - 1)

\* statistics.mean(values), rounded to two decimals
mean(values) == RoundDiv(Sum(values), Len(values))

\* statistics.stdev(values) (the sample standard deviation), rounded to two decimals
\* (the variance is taken of the samples less their minimum: it is the same)
stdev(values) ==
    LET n == Len(values)
        ds == [i \in 1..n |-> values[i] - Min(values)]
    IN  RoundSqrt(n * SumSq(ds) - Sum(ds) * Sum(ds), n * (n - 1), 0, Max(ds) + 1)

AggregatedStats(count, avg, std, min_val, max_val) ==
    [count |-> count, avg |-> avg, std |-> std, min_val |-> min_val, max_val |-> max_val]

aggregate_values(values) ==
    IF values = <<>> THEN AggregatedStats(0, 0, 0, 0, 0)
    ELSE AggregatedStats(Len(values), mean(values),
                         IF Len(values) > 1 THEN stdev(values) ELSE 0,
                         Min(values), Max(values))

TestResult(st, error_message, response_content, timing, tokens, tps) ==
    [prompt |-> "p", status |-> st, error_message |-> error_message,
     response_content |-> response_content, timing |-> timing, tokens |-> tokens, tps |-> tps]

\* successful_results = [r for r in results if r.status == "success"]
successful_results(rs) == SelectSeq(rs, LAMBDA r : r.status = "success")

\* the conditions under which the loop appends to each sample list
HasTiming(r) == r.timing # None
HasTtft(r) == IF r.timing # None THEN Val(r.timing).ttft_ms # None ELSE FALSE
HasTokens(r) == r.tokens # None
HasTps(r) == r.tps # None

\* ttfts drawn from every result, successful or not
ttfts_of_all_results(rs) ==
    LET kept == SelectSeq(rs, HasTtft)
    IN  [i \in 1..Len(kept) |-> Val(Val(kept[i].timing).ttft_ms)]

\* the four sample lists the loop over successful_results builds, each in the
\* order of the results
latencies(rs) ==
    LET kept == SelectSeq(successful_results(rs), HasTiming)
    IN  [i \in 1..Len(kept) |-> Val(kept[i].timing).total_latency_ms]

ttfts(rs) ==
    LET kept == SelectSeq(successful_results(rs), HasTtft)
    IN  [i \in 1..Len(kept) |-> Val(Val(kept[i].timing).ttft_ms)]

output_tokens(rs) ==
    LET kept == SelectSeq(successful_results(rs), HasTokens)
    IN  [i \in 1..Len(kept) |-> 100 * Val(kept[i].tokens).completion_tokens]

tps_values(rs) ==
    LET kept == SelectSeq(successful_results(rs), HasTps)
    IN  [i \in 1..Len(kept) |-> Val(kept[i].tps)]

\* aggregate_values(xs) if xs else None
StatsOrNone(values) == IF values # <<>> THEN Some(aggregate_values(values)) ELSE None

BatchSummary(rs) ==
        [total_requests |-> Len(rs),
         successful |-> Len(successful_results(rs)),
         failed |-> Len(rs) - Len(successful_results(rs)),
         latency_stats |-> StatsOrNone(latencies(rs)),
         ttft_stats |-> StatsOrNone(ttfts(rs)),
         output_tokens_stats |-> StatsOrNone(output_tokens(rs)),
         tps_stats |-> StatsOrNone(tps_values(rs))]

summarize_results ==
    /\ pc = "summarize"
    /\ summary' = Some(BatchSummary(results))
    /\ pc' = "summarized"
    /\ UNCHANGED <<client, mode, now, start_time, status, body, lines_read, ttft, ttfr,
                   content_chunks, completion_tokens, tiktoken_calls, result, results,
                   request_body, raised>>
    /\ UNCHANGED <<sentVars, batchVars, applyVars>>

\* the TestResults a caller can pass: any status with any of the optional
\* records present or absent
TestResults ==
    { TestResult(st, IF st = "error" THEN Some("unknown error: ReadError") ELSE None,
                 IF st = "success" THEN Some("hi") ELSE None, timing, tokens, tps) :
        st \in {"success", "error"},
        timing \in { None,
                     Some([total_latency_ms |-> 1000, ttft_ms |-> None]),
                     Some([total_latency_ms |-> 2000, ttft_ms |-> Some(500)]) },
        tokens \in { None, Some(TokenMetrics(0, 7, 7)) },
        tps \in { None, Some(350) } }

InitSummary ==
    /\ client = LLMClient(ChatEndpoint, "k", "m", DefaultTimeout, None, None, FALSE)
    /\ pc = "summarize"
    /\ mode = "summarize_results"
    /\ now = 0
    /\ start_time = 0
    /\ status = 0
    /\ body = None
    /\ lines_read = 0
    /\ sent_content = <<>>
    /\ sent_reasoning = FALSE
    /\ sent_usage = None
    /\ first_content_at = None
    /\ ended = "no"
    /\ ttft = None
    /\ ttfr = None
    /\ content_chunks = <<>>
    /\ completion_tokens = 0
    /\ tiktoken_calls = 0
    /\ result = NoResult
    /\ request_body = None
    /\ raised = None
    /\ terminal_seen = FALSE
    /\ skipped = 0
    /\ content_after_skip = FALSE
    /\ results \in UNION { [1..n -> TestResults] : n \in 0..MaxResults }
    /\ summary = None
    /\ prompts = <<>>
    /\ runs = 0
    /\ streaming = FALSE
    /\ prompt_idx = 0
    /\ run_idx = 0
    /\ calls = <<>>
    /\ args = <<>>
    /\ ret = None

NextSummary == summarize_results

SpecSummary == InitSummary /\ [][NextSummary]_vars

----------------------------------------------------------------------------
(* src/metrics.py: calculate_tps.                                           *)
(* latency_ms is a count of hundredths of a millisecond, as the            *)
(* total_latency_ms of a TimingMetrics is; the float returned is the       *)
(* fraction num / den of tokens per second.                                *)

Frac(num, den) == [num |-> num, den |-> den]

\* n / f for a float f: ZeroDivisionError when f is 0
Divide(n, f) == IF f.num = 0 THEN Raise("ZeroDivisionError") ELSE Ok(Frac(n * f.den, f.num))

\* calculate_tps guarding only a negative latency
calculate_tps_guarding_negative(tokens, latency_ms) ==
    IF latency_ms < 0 THEN Ok(Frac(0, 1))
    ELSE Divide(tokens, Frac(latency_ms, 100000))

\* calculate_tps: latency_ms / 1000.0 is latency_ms / 100000 seconds
calculate_tps(tokens, latency_ms) ==
    IF latency_ms <= 0 THEN Ok(Frac(0, 1))
    ELSE Divide(tokens, Frac(latency_ms, 100000))

\* round(f, 2) of a non-negative float, in hundredths
RoundFrac2(f) == RoundDiv(100 * f.num, f.den)

----------------------------------------------------------------------------
(* src/main.py: run_single_test and run_batch_tests *)

\* tps=round(tps, 2) if tps else None: None and 0.0 are falsy
tps_field(tps) ==
    IF tps # None /\ Val(tps).num # 0 THEN Some(RoundFrac2(Val(tps))) ELSE None

\* the part of run_single_test after the call: the TestResult built from
\* response, or the exception calculate_tps raises
run_single_test_result(prompt, response) ==
    IF response.success
    THEN LET t == IF response.tokens # None /\ response.timing # None
                  THEN calculate_tps(Val(response.tokens).completion_tokens,
                                     Val(response.timing).total_latency_ms)
                  ELSE Ok(None)
         IN  IF ~t.ok THEN Raise(t.exc)
             ELSE Ok([TestResult("success", None, response.content, response.timing,
                                 response.tokens,
                                 tps_field(IF t.value = None THEN None ELSE Some(t.value)))
                        EXCEPT !.prompt = prompt])
    ELSE Ok([TestResult("error", response.error_message, None, None, None, None)
               EXCEPT !.prompt = prompt])

\* what the POST of a call of the batch ends in: a timeout, a rate limit, a
\* completion with its usage, an empty completion with a zero count
BatchOutcomes(self) ==
    { [exc |-> "ReadTimeout"], [status |-> 429, body |-> [json |-> "invalid"]] }
    \cup { [status |-> 200, body |-> [json |-> "object", data |-> d]] :
             d \in IF self.is_responses_api
                   THEN { [output |-> << MessageItem(<< TextPart(Some("a")) >>) >>,
                           usage |-> [input_tokens |-> 5, output_tokens |-> 1, total_tokens |-> 6]],
                          [output |-> <<>>,
                           usage |-> [input_tokens |-> 5, output_tokens |-> 0, total_tokens |-> 5]] }
                   ELSE { [choices |-> << [message |-> [content |-> Some("hi")]] >>,
                           usage |-> [prompt_tokens |-> 5, completion_tokens |-> 1, total_tokens |-> 6]],
                          [choices |-> << [message |-> [content |-> Some("")]] >>,
                           usage |-> [prompt_tokens |-> 5, completion_tokens |-> 0, total_tokens |-> 5]] } }

\* what client.call_api(prompt) returns to run_single_test
call_api_returns(self) ==
    { IF r.ok THEN r.value ELSE call_api_except(self, r.exc) :
        r \in UNION { call_api_try(self, o, MaxRtt) : o \in BatchOutcomes(self) } }

\* what client.call_api_stream(prompt) returns to run_single_test: the stream
\* is not opened, or it ends after the events "a", "b" and a count of 2
call_api_stream_returns(self) ==
    { call_api_stream_except(self, o.exc) : o \in { x \in BatchOutcomes(self) : "exc" \in DOMAIN x } }
    \cup { Val(call_api_stream_status(o.status)) :
             o \in { x \in BatchOutcomes(self) :
                       IF "status" \in DOMAIN x THEN x.status # 200 ELSE FALSE } }
    \cup { IF f.end.ok THEN f.end.value ELSE call_api_stream_except(self, f.end.exc) :
             f \in call_api_stream_finish(Locals(Some(MaxRtt), None, <<"a", "b">>, 2),
                                          MaxRtt + MaxTick) }

\* the loop position after iteration <<i, j>> with rows first: all prompts
\* for one repetition, then the next repetition
loop_after_by_repetition(ps, n, i, j) ==
    IF i + 1 < Len(ps) THEN <<i + 1, j>> ELSE <<0, j + 1>>

\* for prompt_idx, prompt in enumerate(prompts): for run_idx in range(runs):
\* the loop position after iteration <<i, j>>
loop_after(ps, n, i, j) ==
    IF j + 1 < n THEN <<i, j + 1>> ELSE <<i + 1, 0>>

\* both loops are exhausted
loop_exhausted == prompt_idx >= Len(prompts) \/ run_idx >= runs

\* run_batch_tests enters run_single_test, which issues the call on the client
run_single_test_call ==
    /\ pc = "batch"
    /\ ~loop_exhausted
    /\ calls' = Append(calls, <<prompt_idx, run_idx>>)
    /\ pc' = "calling"
    /\ UNCHANGED <<prompts, runs, streaming, prompt_idx, run_idx>>
    /\ UNCHANGED <<client, mode, now, start_time, status, body, lines_read, ttft, ttfr,
                   content_chunks, completion_tokens, tiktoken_calls, result, request_body,
                   raised>>
    /\ UNCHANGED <<sentVars, summaryVars, applyVars>>

\* the call returns; run_single_test builds the TestResult and run_batch_tests
\* appends it and goes to the next iteration
run_single_test ==
    /\ pc = "calling"
    /\ \E response \in IF streaming THEN call_api_stream_returns(client)
                                     ELSE call_api_returns(client) :
         LET r == run_single_test_result(prompts[prompt_idx + 1], response)
             after == loop_after(prompts, runs, prompt_idx, run_idx)
         IN  /\ result' = IF r.ok THEN response ELSE Propagated(r.exc)
             /\ results' = IF r.ok THEN Append(results, r.value) ELSE results
             /\ pc' = IF r.ok THEN "batch" ELSE "raised"
             /\ prompt_idx' = IF r.ok THEN after[1] ELSE prompt_idx
             /\ run_idx' = IF r.ok THEN after[2] ELSE run_idx
    /\ UNCHANGED <<prompts, runs, streaming, calls, summary>>
    /\ UNCHANGED <<client, mode, now, start_time, status, body, lines_read, ttft, ttfr,
                   content_chunks, completion_tokens, tiktoken_calls, request_body, raised>>
    /\ UNCHANGED <<sentVars, applyVars>>

\* the loops are over: run_batch_tests returns results, which main hands to
\* summarize_results
run_batch_tests_return ==
    /\ pc = "batch"
    /\ loop_exhausted
    /\ pc' = "summarize"
    /\ UNCHANGED <<client, mode, now, start_time, status, body, lines_read, ttft, ttfr,
                   content_chunks, completion_tokens, tiktoken_calls, result, request_body,
                   raised>>
    /\ UNCHANGED <<sentVars, summaryVars, batchVars, applyVars>>

Prompts == {"p", "q"}

InitBatch ==
    /\ client \in { LLMClient(e, "k", "m", DefaultTimeout, None, None, FALSE) :
                      e \in {ResponsesEndpoint, ChatEndpoint} }
    /\ pc = "batch"
    /\ mode = "run_batch_tests"
    /\ now = 0
    /\ start_time = 0
    /\ status = 0
    /\ body = None
    /\ lines_read = 0
    /\ sent_content = <<>>
    /\ sent_reasoning = FALSE
    /\ sent_usage = None
    /\ first_content_at = None
    /\ ended = "no"
    /\ ttft = None
    /\ ttfr = None
    /\ content_chunks = <<>>
    /\ completion_tokens = 0
    /\ tiktoken_calls = 0
    /\ result = NoResult
    /\ request_body = None
    /\ raised = None
    /\ terminal_seen = FALSE
    /\ skipped = 0
    /\ content_after_skip = FALSE
    /\ results = <<>>
    /\ summary = None
    /\ prompts \in UNION { [1..n -> Prompts] : n \in 0..MaxPrompts }
    /\ runs \in 0..MaxRuns
    /\ Len(prompts) * runs <= MaxCalls
    /\ streaming \in BOOLEAN
    /\ prompt_idx = 0
    /\ run_idx = 0
    /\ calls = <<>>
    /\ args = <<>>
    /\ ret = None

NextBatch ==
    \/ run_single_test_call
    \/ run_single_test
    \/ run_batch_tests_return
    \/ summarize_results

SpecBatch == InitBatch /\ [][NextBatch]_vars

----------------------------------------------------------------------------
(* _build_request_body applied to every configuration *)

\* the configurations of a client: every endpoint, the reasoning effort not
\* given, empty or given, the token cap not given, 0 or given, the cache
\* bypass off or on
BodyClients ==
    { LLMClient(e, "k", "m", DefaultTimeout, effort, cap, no_cache) :
        e \in Endpoints,
        effort \in {None, Some(""), Some("low")},
        cap \in {None, Some(0), Some(256)},
        no_cache \in BOOLEAN }

\* body = self._build_request_body(prompt, stream)
build_request_body ==
    /\ pc = "build"
    /\ ret' = Some(_build_request_body(client, args[1], args[2]))
    /\ pc' = "built"
    /\ UNCHANGED <<client, mode, now, start_time, status, body, lines_read, ttft, ttfr,
                   content_chunks, completion_tokens, tiktoken_calls, result, request_body,
                   raised, args>>
    /\ UNCHANGED <<sentVars, summaryVars, batchVars>>

InitBody ==
    /\ client \in BodyClients
    /\ pc = "build"
    /\ mode = "_build_request_body"
    /\ now = 0
    /\ start_time = 0
    /\ status = 0
    /\ body = None
    /\ lines_read = 0
    /\ sent_content = <<>>
    /\ sent_reasoning = FALSE
    /\ sent_usage = None
    /\ first_content_at = None
    /\ ended = "no"
    /\ ttft = None
    /\ ttfr = None
    /\ content_chunks = <<>>
    /\ completion_tokens = 0
    /\ tiktoken_calls = 0
    /\ result = NoResult
    /\ request_body = None
    /\ raised = None
    /\ terminal_seen = FALSE
    /\ skipped = 0
    /\ content_after_skip = FALSE
    /\ results = <<>>
    /\ summary = None
    /\ prompts = <<>>
    /\ runs = 0
    /\ streaming = FALSE
    /\ prompt_idx = 0
    /\ run_idx = 0
    /\ calls = <<>>
    /\ args \in Prompts \X BOOLEAN
    /\ ret = None

NextBody == build_request_body

SpecBody == InitBody /\ [][NextBody]_vars

----------------------------------------------------------------------------
(* aggregate_values applied to every sample list *)

\* the samples, in hundredths
SampleValues == {0, 1, 2, 150, 1000}

\* stats = aggregate_values(values); the list passed is not assigned to
aggregate ==
    /\ pc = "aggregate"
    /\ ret' = Some(aggregate_values(args))
    /\ args' = args
    /\ pc' = "aggregated"
    /\ UNCHANGED <<client, mode, now, start_time, status, body, lines_read, ttft, ttfr,
                   content_chunks, completion_tokens, tiktoken_calls, result, request_body,
                   raised>>
    /\ UNCHANGED <<sentVars, summaryVars, batchVars>>

InitAggregate ==
    /\ client = LLMClient(ChatEndpoint, "k", "m", DefaultTimeout, None, None, FALSE)
    /\ pc = "aggregate"
    /\ mode = "aggregate_values"
    /\ now = 0
    /\ start_time = 0
    /\ status = 0
    /\ body = None
    /\ lines_read = 0
    /\ sent_content = <<>>
    /\ sent_reasoning = FALSE
    /\ sent_usage = None
    /\ first_content_at = None
    /\ ended = "no"
    /\ ttft = None
    /\ ttfr = None
    /\ content_chunks = <<>>
    /\ completion_tokens = 0
    /\ tiktoken_calls = 0
    /\ result = NoResult
    /\ request_body = None
    /\ raised = None
    /\ terminal_seen = FALSE
    /\ skipped = 0
    /\ content_after_skip = FALSE
    /\ results = <<>>
    /\ summary = None
    /\ prompts = <<>>
    /\ runs = 0
    /\ streaming = FALSE
    /\ prompt_idx = 0
    /\ run_idx = 0
    /\ calls = <<>>
    /\ args \in UNION { [1..n -> SampleValues] : n \in 0..MaxSamples }
    /\ ret = None

NextAggregate == aggregate

SpecAggregate == InitAggregate /\ [][NextAggregate]_vars

----------------------------------------------------------------------------
(* calculate_tps applied to every token count and latency *)

\* tps = calculate_tps(tokens, latency_ms)
calculate ==
    /\ pc = "calculate"
    /\ ret' = Some(calculate_tps(args[1], args[2]))
    /\ pc' = "calculated"
    /\ UNCHANGED <<client, mode, now, start_time, status, body, lines_read, ttft, ttfr,
                   content_chunks, completion_tokens, tiktoken_calls, result, request_body,
                   raised, args>>
    /\ UNCHANGED <<sentVars, summaryVars, batchVars>>

InitTps ==
    /\ client = LLMClient(ChatEndpoint, "k", "m", DefaultTimeout, None, None, FALSE)
    /\ pc = "calculate"
    /\ mode = "calculate_tps"
    /\ now = 0
    /\ start_time = 0
    /\ status = 0
    /\ body = None
    /\ lines_read = 0
    /\ sent_content = <<>>
    /\ sent_reasoning = FALSE
    /\ sent_usage = None
    /\ first_content_at = None
    /\ ended = "no"
    /\ ttft = None
    /\ ttfr = None
    /\ content_chunks = <<>>
    /\ completion_tokens = 0
    /\ tiktoken_calls = 0
    /\ result = NoResult
    /\ request_body = None
    /\ raised = None
    /\ terminal_seen = FALSE
    /\ skipped = 0
    /\ content_after_skip = FALSE
    /\ results = <<>>
    /\ summary = None
    /\ prompts = <<>>
    /\ runs = 0
    /\ streaming = FALSE
    /\ prompt_idx = 0
    /\ run_idx = 0
    /\ calls = <<>>
    /\ args \in (0..MaxTokens) \X ((-MaxLatency)..MaxLatency)
    /\ ret = None

NextTps == calculate

SpecTps == InitTps /\ [][NextTps]_vars

----------------------------------------------------------------------------
(* Properties of one call (Spec) *)

Returned == pc = "done" /\ result.kind = "LLMResponse"
Buffered == mode = "call_api"
Streaming == mode = "call_api_stream"

\* the stream ended without an exception: by [DONE] or by the server closing it
EndedNormally == ended \in {"[DONE]", "closed"}

\* the key of the completion count / of the prompt count in the usage object
\* of the client's wire format
CompletionKey == IF client.is_responses_api THEN "output_tokens" ELSE "completion_tokens"
PromptKey == IF client.is_responses_api THEN "input_tokens" ELSE "prompt_tokens"

\* the usage object of the buffered response received (empty when there is none)
ReceivedUsage ==
    IF body = None THEN <<>>
    ELSE IF Val(body).json # "object" THEN <<>>
    ELSE Get(Val(body).data, "usage", <<>>)

\* the completion count the server reported to the running call (zero when it
\* reported none)
ServerCompletion ==
    IF Buffered THEN Get(ReceivedUsage, CompletionKey, 0)
    ELSE IF sent_usage = None THEN 0 ELSE Val(sent_usage)

\* the ttft_ms of a returned LLMResponse (None when it carries no timing)
ResultTtft(r) == IF r.timing = None THEN None ELSE Val(r.timing).ttft_ms

\* C1: whatever the transport does (any status, a timeout, a connection
\* failure, any other exception, a malformed body or stream event), call_api
\* and call_api_stream end by returning an LLMResponse: no exception leaves
\* either call.
C1_NoExceptionLeavesTheCall ==
    /\ result.kind # "raised"
    /\ pc = "done" => result.kind = "LLMResponse"

\* a streaming call met an event that is no JSON object (an AttributeError in
\* the loop body) and returned the unclassified failure
C1_Witness ==
    /\ Streaming
    /\ pc = "done"
    /\ ended = "malformed"
    /\ result = Failure("unknown error: AttributeError")

\* C2: every LLMResponse returned is a success with content, timing and tokens
\* all present and no error message, or a failure with an error message and
\* none of content, timing and tokens.
C2_ExactlyOneGroupPopulated ==
    Returned =>
        IF result.success
        THEN /\ result.content # None
             /\ result.timing # None
             /\ result.tokens # None
             /\ result.error_message = None
        ELSE /\ result.error_message # None
             /\ result.content = None
             /\ result.timing = None
             /\ result.tokens = None

\* C3: a streaming call that got HTTP 200 and a stream ended by [DONE] or by
\* the server closing it returns a success whose content is the concatenation,
\* in order, of the non-empty content fragments sent; on a responses-style
\* client the fragments "a", "b", a response.completed with output_tokens 2
\* and [DONE] give completion tokens 2, a ttft and no ttfr.
C3_StreamContentIsConcatenation ==
    Streaming /\ pc = "done" /\ EndedNormally =>
        /\ result.kind = "LLMResponse"
        /\ result.success
        /\ result.content = Some(Join(sent_content))
        /\ (/\ client.is_responses_api
            /\ sent_content = <<"a", "b">>
            /\ sent_usage = Some(2)
            /\ ~sent_reasoning
            /\ ended = "[DONE]")
           => /\ Val(result.tokens).completion_tokens = 2
              /\ Val(result.timing).ttft_ms # None
              /\ Get(Val(result.timing), "ttfr_ms", None) = None

\* C4: a buffered call whose transport reports status s returns the failure
\* that s decides: 401 authentication failed, 403 insufficient permission, 429
\* rate limited, s >= 500 the server error with s, any other s but 200 the
\* request-failed message with s; a success is returned only for s = 200.
C4_BufferedStatusClassification ==
    Buffered /\ pc = "done" /\ status # 0 =>
        /\ status = 401 =>
             result = Failure("authentication failed: API key invalid or expired")
        /\ status = 403 =>
             result = Failure("insufficient permission: model or resource not accessible")
        /\ status = 429 => result = Failure("too many requests: rate limit triggered")
        /\ status >= 500 => result = Failure("server error: " \o ToString(status))
        /\ status \notin {200, 401, 403, 429} /\ status < 500 =>
             result = Failure("request failed: HTTP " \o ToString(status))
        /\ result.success => status = 200

\* a buffered call got a 2xx status other than 200 and returned the
\* request-failed message with it
C4_Witness ==
    /\ Buffered
    /\ pc = "done"
    /\ status = 204
    /\ result = Failure("request failed: HTTP 204")

\* C5: for every status s other than 200, call_api_stream returns the failure
\* call_api returns for s, and does so before it reads the stream: no line is
\* read, and content, ttft, ttfr and the completion count are untouched.
C5_StreamStatusAsBuffered ==
    Streaming /\ status \notin {0, 200} =>
        /\ pc = "done"
        /\ result = Val(call_api_status(status))
        /\ lines_read = 0
        /\ content_chunks = <<>>
        /\ ttft = None
        /\ ttfr = None
        /\ completion_tokens = 0
        /\ tiktoken_calls = 0

\* a streaming call got 403 and returned the insufficient-permission failure
C5_Witness ==
    /\ Streaming
    /\ status = 403
    /\ pc = "done"
    /\ result = Failure("insufficient permission: model or resource not accessible")

\* C6: in a streaming call ttft is the elapsed time at the first non-empty
\* content fragment (so no later fragment, reasoning fragment or usage event
\* sets or changes it), and the LLMResponse returned has no ttft if and only if
\* no non-empty content fragment arrived before the stream ended.
C6_TtftIsFirstContentTime ==
    Streaming =>
        /\ ttft = first_content_at
        /\ pc = "done" /\ EndedNormally =>
             /\ result.kind = "LLMResponse"
             /\ ResultTtft(result) = None <=> sent_content = <<>>

\* C8: count_tokens_tiktoken is called if and only if the call returns a
\* success, the server reported a completion count of zero and the content is
\* not empty; a non-zero count the server reported is returned unchanged.
C8_FallbackOnlyForZeroCountAndContent ==
    Returned =>
        LET content == IF Buffered THEN result.content ELSE Some(Join(sent_content))
        IN  /\ tiktoken_calls > 0 <=>
                 (result.success /\ ServerCompletion = 0 /\ TruthyStr(content))
            /\ (EndedNormally \/ (Buffered /\ result.success)) /\ ServerCompletion # 0 =>
                 /\ result.success
                 /\ Val(result.tokens).completion_tokens = ServerCompletion

\* C9: a successful buffered call whose usage object supplied a prompt count
\* and a completion count returns total_tokens = prompt_tokens +
\* completion_tokens; a successful streaming call returns prompt_tokens = 0 and
\* total_tokens = completion_tokens.
C9_TotalIsPromptPlusCompletion ==
    Returned /\ result.success =>
        LET t == Val(result.tokens)
        IN  IF Buffered
            THEN {PromptKey, CompletionKey} \subseteq DOMAIN ReceivedUsage =>
                     t.total_tokens = t.prompt_tokens + t.completion_tokens
            ELSE t.prompt_tokens = 0 /\ t.total_tokens = t.completion_tokens

----------------------------------------------------------------------------
(* Properties of summarize_results (SpecSummary) *)

\* the positions of the successful results
Successes == { i \in DOMAIN results : results[i].status = "success" }

\* stats is absent exactly when the sample set is empty, and counts it otherwise
StatsCount(stats, sample) ==
    /\ stats = None <=> sample = {}
    /\ stats # None => Val(stats).count = Cardinality(sample)

\* C10: summarize_results returns total_requests = the number of results,
\* successful = the number with status success, failed = the rest, and each
\* of the four stats is None exactly when its own sample set, drawn from the
\* successful results, is empty, and has the size of that set as its count
\* otherwise.
C10_SummaryCountsAndIndependentStats ==
    pc = "summarized" =>
        LET s == Val(summary)
        IN  /\ s.total_requests = Len(results)
            /\ s.successful = Cardinality(Successes)
            /\ s.failed = s.total_requests - s.successful
            /\ StatsCount(s.latency_stats, { i \in Successes : results[i].timing # None })
            /\ StatsCount(s.ttft_stats,
                          { i \in Successes : IF results[i].timing = None THEN FALSE
                                              ELSE Val(results[i].timing).ttft_ms # None })
            /\ StatsCount(s.output_tokens_stats, { i \in Successes : results[i].tokens # None })
            /\ StatsCount(s.tps_stats, { i \in Successes : results[i].tps # None })

\* a batch of three, two successes with latencies and no ttft and one failure
\* that carries a ttft: latency_stats counts two, ttft_stats is None
C10_Witness ==
    /\ pc = "summarized"
    /\ Len(results) = 3
    /\ Val(summary).successful = 2
    /\ Val(summary).failed = 1
    /\ Val(summary).latency_stats # None
    /\ Val(Val(summary).latency_stats).count = 2
    /\ Val(summary).ttft_stats = None
    /\ \E i \in DOMAIN results :
         /\ results[i].status = "error"
         /\ results[i].timing # None
         /\ Val(results[i].timing).ttft_ms # None

\* the configuration fields of a client as __init__ computes them from the
\* endpoint and the other arguments it kept
AsConstructed(self) ==
    self = LLMClient(self.endpoint, self.api_key, self.model, self.timeout,
                     self.reasoning_effort, self.max_tokens, self.no_cache)

\* the request body of the call has the shape of the format of the client
RequestFollowsFormat ==
    request_body # None =>
        /\ ("input" \in DOMAIN Val(request_body)) = client.is_responses_api
        /\ ("messages" \in DOMAIN Val(request_body)) = ~client.is_responses_api

\* a buffered success carries what the format of the client finds in the
\* body: the prompt count under the key of the format, and no content from a
\* body that has only the content of the other format
ParsingFollowsFormat ==
    (Returned /\ Buffered /\ result.success) =>
        /\ Val(result.tokens).prompt_tokens = Get(ReceivedUsage, PromptKey, 0)
        /\ (IF client.is_responses_api THEN "output" ELSE "choices") \notin DOMAIN Val(body).data
              => result.content = Some("")

\* C13: is_responses_api is true exactly when the endpoint contains
\* "/responses", and it and every other configuration field of the client
\* keep the values __init__ gave them through every step of call_api and
\* call_api_stream, whatever the outcome; the request body a call builds and
\* the fields it reads from the response are those of that format.
C13_ClassificationIsFixedAtConstruction ==
    /\ [](/\ client.is_responses_api = Contains(client.endpoint, ResponsesPath)
          /\ AsConstructed(client)
          /\ RequestFollowsFormat
          /\ ParsingFollowsFormat)
    /\ [][client' = client]_vars

\* a buffered call on a client whose endpoint has a query after "/responses"
\* has returned a success, and its request had the responses shape
C13_Witness ==
    /\ Returned /\ Buffered /\ result.success
    /\ client.is_responses_api
    /\ client.endpoint # ResponsesEndpoint
    /\ "input" \in DOMAIN Val(request_body)

\* C16: once the [DONE] line or a response.completed event has been read, the
\* streaming call reads no further line, and the content it accumulated no
\* longer changes.
C16_ReadStopsAtTerminalEvent ==
    [][(terminal_seen \/ ended = "[DONE]")
          => (lines_read' = lines_read /\ content_chunks' = content_chunks)]_vars

\* C17: while the stream is read, the completion-token count of a streaming
\* call is the value carried by the last event that supplied the
\* completion-token field of the format (0 when no event has supplied it): an
\* event without that field does not change it.
C17_CountChangesOnlyWithTheField ==
    (Streaming /\ pc = "iter") =>
        completion_tokens = (IF sent_usage = None THEN 0 ELSE Val(sent_usage))

\* C18: a streaming call in which an exception was raised, before the stream
\* was opened, while a line was awaited or while an event was handled, returns
\* a failure that names the timeout with the configured value for a timeout,
\* the failed connection for a connection error and the unclassified error
\* otherwise, and that carries no content, timing or tokens, whatever content
\* had been accumulated.
C18_StreamExceptionGivesClassifiedFailure ==
    (Streaming /\ pc = "done" /\ raised # None) =>
        LET e == Val(raised)
            msg == IF e \in {"TimeoutException", "ConnectTimeout", "ReadTimeout"}
                   THEN "request timed out: over " \o ToString(client.timeout) \o " seconds"
                   ELSE IF e = "ConnectError" THEN "connection failed: ConnectError"
                   ELSE "unknown error: " \o e
        IN  /\ result.kind = "LLMResponse"
            /\ ~result.success
            /\ result.error_message = Some(msg)
            /\ result.content = None
            /\ result.timing = None
            /\ result.tokens = None

\* the read timed out after two content fragments had been accumulated, on a
\* client with a timeout of 30 seconds
C18_Witness ==
    /\ Streaming /\ pc = "done"
    /\ ended = "raised"
    /\ raised = Some("ReadTimeout")
    /\ Len(content_chunks) = 2
    /\ client.timeout = 30
    /\ result.error_message = Some("request timed out: over 30 seconds")

\* C19: a step of a streaming call that reads an empty line, a line without
\* the "data: " prefix or a "data: " line whose payload json.loads rejects
\* leaves content, ttft, ttfr and the completion count as they were and the
\* loop running; the events before and after such lines are all processed:
\* while the stream is read the content is the fragments sent so far, ttft is
\* the time of the first of them and ttfr is set exactly when a reasoning
\* fragment was sent, as for the stream without the skipped lines.
C19_SkippedLinesChangeNothing ==
    /\ [][skipped' # skipped
            => /\ pc' = "iter"
               /\ content_chunks' = content_chunks
               /\ ttft' = ttft
               /\ ttfr' = ttfr
               /\ completion_tokens' = completion_tokens
               /\ result' = result]_vars
    /\ []((Streaming /\ pc = "iter")
            => /\ content_chunks = sent_content
               /\ ttft = first_content_at
               /\ (ttfr # None) = sent_reasoning)

\* a content fragment was accumulated after two lines had been skipped
C19_Witness ==
    /\ Streaming /\ pc = "iter"
    /\ skipped = 2
    /\ content_after_skip
    /\ Len(content_chunks) = 1
    /\ ttft # None

----------------------------------------------------------------------------
(* Properties of a batch run (SpecBatch) *)

\* run_batch_tests has returned
BatchReturned == pc \in {"summarize", "summarized"}

\* C11: run_batch_tests issues len(prompts) * runs calls, one at a time (a
\* call is issued only when every earlier call has returned and its result is
\* appended), the k-th in prompt order then repetition order; results[k] is
\* the result of the k-th call and carries its prompt; no exception and no
\* failure ends the run early, and the list returned has length
\* len(prompts) * runs.
C11_BatchIsSequentialAndComplete ==
    /\ pc # "raised"
    /\ Len(calls) = Len(results) + (IF pc = "calling" THEN 1 ELSE 0)
    /\ \A k \in 1..Len(calls) : calls[k] = <<(k - 1) \div runs, (k - 1) % runs>>
    /\ \A k \in 1..Len(results) : results[k].prompt = prompts[calls[k][1] + 1]
    /\ BatchReturned => /\ Len(calls) = Len(prompts) * runs
                        /\ Len(results) = Len(prompts) * runs

\* a batch of two prompts and two repetitions whose first call failed and
\* whose last call succeeded has returned
C11_Witness ==
    /\ BatchReturned
    /\ Len(prompts) = 2 /\ prompts[1] # prompts[2]
    /\ runs = 2
    /\ Len(results) = 4
    /\ results[1].status = "error"
    /\ results[4].status = "success"

\* the tps a successful TestResult is to carry: calculate_tps of its
\* completion count and its total latency, rounded to two decimals
DerivedTps(r) ==
    Some(RoundFrac2(calculate_tps(Val(r.tokens).completion_tokens,
                                  Val(r.timing).total_latency_ms).value))

\* C20: every TestResult built from a successful Result carries
\* tps = round(calculate_tps(completion_tokens, total_latency_ms), 2), also
\* when that is 0, so that the tps sample set of summarize_results has one
\* entry per successful result; every TestResult built from a failed Result
\* has status error, the error message of the Result, and no timing, tokens
\* or tps.
C20_EveryResultCarriesItsTps ==
    /\ \A k \in 1..Len(results) :
          IF results[k].status = "success"
          THEN results[k].tps = DerivedTps(results[k])
          ELSE /\ results[k].status = "error"
               /\ results[k].error_message # None
               /\ results[k].timing = None
               /\ results[k].tokens = None
               /\ results[k].tps = None
    /\ (pc = "batch" /\ results # <<>>) =>
          IF result.success
          THEN results[Len(results)].status = "success"
          ELSE results[Len(results)].error_message = result.error_message
    /\ summary # None =>
          Len(tps_values(results)) = Val(summary).successful

----------------------------------------------------------------------------
(* Properties of _build_request_body (SpecBody) *)

\* the keys k for which the option is configured (an effort that is not
\* empty, a cap that is not 0, the bypass switched on)
KeysIf(cond, k) == IF cond THEN {k} ELSE {}

\* C12: the body _build_request_body returns has exactly the keys of the
\* format of the client: model, input, stream and, each if and only if its
\* option is configured, reasoning (holding effort), max_output_tokens, store
\* for the responses format; model, messages, stream and, each if and only if
\* its option is configured, reasoning_effort, max_tokens for the
\* chat-completions format; no value is null, and the values are those of the
\* configuration and of the arguments.  An empty effort and a cap of 0 count
\* as not configured.
C12_BodyHasExactlyTheKeysOfItsFormat ==
    pc = "built" =>
        LET b == Val(ret)
            effort == TruthyStr(client.reasoning_effort)
            cap == TruthyNum(client.max_tokens)
        IN  /\ \A k \in DOMAIN b : b[k] # None
            /\ b.model = Some(client.model)
            /\ b.stream = Some(args[2])
            /\ IF client.is_responses_api
               THEN /\ DOMAIN b = {"model", "input", "stream"}
                                  \cup KeysIf(effort, "reasoning")
                                  \cup KeysIf(cap, "max_output_tokens")
                                  \cup KeysIf(client.no_cache, "store")
                    /\ b.input = Some(args[1])
                    /\ effort => /\ DOMAIN Val(b.reasoning) = {"effort"}
                                 /\ Val(b.reasoning).effort = client.reasoning_effort
                    /\ cap => b.max_output_tokens = client.max_tokens
                    /\ client.no_cache => b.store = Some(FALSE)
               ELSE /\ DOMAIN b = {"model", "messages", "stream"}
                                  \cup KeysIf(effort, "reasoning_effort")
                                  \cup KeysIf(cap, "max_tokens")
                    /\ b.messages = Some(<< [role |-> "user", content |-> args[1]] >>)
                    /\ effort => b.reasoning_effort = client.reasoning_effort
                    /\ cap => b.max_tokens = client.max_tokens

\* a body was built for a responses-style client with only the cap given,
\* and one for a chat-completions-style client with the bypass on
C12_Witness ==
    /\ pc = "built"
    /\ \/ /\ client.is_responses_api
          /\ DOMAIN Val(ret) = {"model", "input", "stream", "max_output_tokens"}
       \/ /\ ~client.is_responses_api
          /\ client.no_cache
          /\ DOMAIN Val(ret) = {"model", "messages", "stream", "reasoning_effort"}

----------------------------------------------------------------------------
(* Properties of aggregate_values (SpecAggregate) *)

\* the orders in which n samples can be listed
Orders(n) == { f \in [1..n -> 1..n] : \A i, j \in 1..n : f[i] = f[j] => i = j }

\* C14: aggregate_values returns count = len(values) and
\* min_val <= avg <= max_val for a non-empty list, std = 0 for a list of one
\* sample, the all-zero record for the empty list; it returns the same record
\* for the samples in any other order, and it leaves the list as it was.
C14_AggregateIsOrderedAndOrderFree ==
    /\ [](pc = "aggregated" =>
            LET st == Val(ret)
            IN  /\ args = <<>> => st = AggregatedStats(0, 0, 0, 0, 0)
                /\ args # <<>> => /\ st.count = Len(args)
                                  /\ st.min_val <= st.avg
                                  /\ st.avg <= st.max_val
                                  /\ st.std >= 0
                /\ Len(args) = 1 => st.std = 0
                /\ \A f \in Orders(Len(args)) :
                      aggregate_values([i \in 1..Len(args) |-> args[f[i]]]) = st)
    /\ [][args' = args]_vars

\* three samples that are not sorted and not all equal were aggregated
C14_Witness ==
    /\ pc = "aggregated"
    /\ Len(args) = 3
    /\ args[1] > args[2]
    /\ args[2] < args[3]
    /\ Val(ret).std > 0
    /\ Val(ret).min_val < Val(ret).avg

----------------------------------------------------------------------------
(* Properties of calculate_tps (SpecTps) *)

\* C15: calculate_tps(tokens, latency_ms) never raises; it returns 0 for a
\* latency that is zero or negative, and tokens * 1000 / latency_ms (with
\* latency_ms in hundredths: tokens * 100000 / latency_ms) for a positive
\* latency and a token count that is not negative.
C15_TpsIsTokensPerSecond ==
    pc = "calculated" =>
        LET r == Val(ret)
            tokens == args[1]
            latency_ms == args[2]
        IN  IF ~r.ok THEN FALSE
            ELSE /\ r.value.den > 0
                 /\ latency_ms <= 0 => r.value.num = 0
                 /\ latency_ms > 0 => r.value.num * latency_ms = tokens * 100000 * r.value.den

\* 7 tokens in 0.03 ms were turned into a rate that is not zero
C15_Witness ==
    /\ pc = "calculated"
    /\ args = <<7, 3>>
    /\ Val(ret).ok
    /\ Val(ret).value.num > 0

====
